---- MODULE Spec2Model ----
(***************************************************************************)
(* A state-machine model of pyMMF/pyMMF.py: the propagationModeSolver      *)
(* (setWL, setIndexProfile, solve), the Modes container it fills           *)
(* (getModeMatrix, getNearDegenerate, getEvolutionOperator,                *)
(* getPropagationMatrix) and the two closed-form mode-count estimators.    *)
(*                                                                         *)
(* Numbers.  Floating-point quantities are held exactly: rationals are     *)
(* records [n, d]; a denominator 0 is the non-finite result of a float     *)
(* division by zero (n = 0: nan, n # 0: inf).  A wavelength is the pair    *)
(* <<p, q>> standing for wl = 2*pi*p/q, so that k0 = 2*pi/wl = q/p.         *)
(* Eigenvalues handed back by the eigensolver are drawn from perfect       *)
(* squares, so that sqrt is exact.                                         *)
(*                                                                         *)
(* Objects.  Modes objects live in `heap`, addressed by identity; 0 is     *)
(* Python's None.  Objects no reference reaches are collected.             *)
(***************************************************************************)
EXTENDS Integers, Sequences, FiniteSets, TLC

VARIABLES
    wl,            \* propagationModeSolver.wl      (<<>> is None)
    indexProfile,  \* propagationModeSolver.indexProfile (index in IndexProfiles, 0 is None)
    H,             \* propagationModeSolver.H       (the attribute exists once set)
    modes,         \* propagationModeSolver.modes   (object identity, 0 is None)
    heap,          \* the live Modes objects, by identity
    ret,           \* the Modes object the caller holds (last one handed to it)
    solvedCurv,    \* history: the curvature argument of the solve that made each object
    out,           \* the last call: its name, arguments and outcome
    est            \* inputs and outcome of the stateless estimators

vars == <<wl, indexProfile, H, modes, heap, ret, solvedCurv, out, est>>
solverVars == <<wl, indexProfile, H, modes, heap, ret, solvedCurv, out>>

-----------------------------------------------------------------------------
(* Bounds of the model *)

MaxModes == 2      \* nmodesMax ranges over 1..MaxModes
MaxTol == 1        \* tol of getNearDegenerate ranges over 0..MaxTol
MaxRadius == 3     \* fibre radius a of the estimators ranges over 0..MaxRadius
MaxNA == 3         \* numerical aperture NA ranges over 0/NADen .. MaxNA/NADen

NADen == 2         \* NA is given in halves

-----------------------------------------------------------------------------
(* Arithmetic helpers *)

Abs(x) == IF x < 0 THEN -x ELSE x

SetMin(S) == CHOOSE x \in S : \A y \in S : x <= y

SetMax(S) == CHOOSE x \in S : \A y \in S : y <= x

Range(s) == {s[i] : i \in DOMAIN s}

RECURSIVE Gcd(_, _)
Gcd(a, b) == IF b = 0 THEN a ELSE Gcd(b, a % b)

\* the rational n/d in lowest terms with d > 0; d = 0 is kept as the non-finite value
Rat(n, d) ==
    IF d = 0 THEN [n |-> IF n > 0 THEN 1 ELSE IF n < 0 THEN -1 ELSE 0, d |-> 0]
    ELSE LET g == Gcd(Abs(n), Abs(d))
             s == IF d < 0 THEN -1 ELSE 1
         IN [n |-> s * (n \div g), d |-> s * (d \div g)]

RAdd(a, b) == Rat(a.n * b.d + b.n * a.d, a.d * b.d)

RMul(a, b) == Rat(a.n * b.n, a.d * b.d)

\* float division: x/0 is inf or nan, never an exception (numpy arrays)
RDiv(a, b) == Rat(a.n * b.d, a.d * b.n)

RIsZero(a) == a.n = 0 /\ a.d # 0

\* ceil of a finite rational >= 0
Ceil(a) == (a.n + a.d - 1) \div a.d

\* exact square root of a perfect square
Sqrt(x) == CHOOSE r \in 0..x : r * r = x

\* a list repeated k times (Python's list * int)
RECURSIVE Repeat(_, _)
Repeat(s, k) == IF k <= 0 THEN <<>> ELSE s \o Repeat(s, k - 1)

\* the elements of a set of integers in ascending order
RECURSIVE Ascending(_)
Ascending(S) == IF S = {} THEN <<>> ELSE <<SetMin(S)>> \o Ascending(S \ {SetMin(S)})

\* s[from..] of a 1-based sequence (Python's s[from-1:])
Tail1(s, from) == SubSeq(s, from, Len(s))

-----------------------------------------------------------------------------
(* The inputs: wavelengths, index profiles, curvatures, eigensolver output *)

\* wl = 2*pi*p/q for <<p, q>>
Wavelengths == {<<1, 2>>}

\* k0 = 2.*np.pi/self.wl
K0(w) == Rat(w[2], w[1])

\* X of a square grid over [-half, half]: meshgrid of linspace, flattened row-major
XFlat(npoints, half) ==
    [j \in 1..(npoints * npoints) |->
        -half + (2 * half * ((j - 1) % npoints)) \div (npoints - 1)]

\* an IndexProfile: npoints, dh, n (flattened row-major) and X (flattened)
IndexProfileOf(npoints, half, nflat) ==
    [npoints |-> npoints,
     dh      |-> Rat(2 * half, npoints - 1),
     n       |-> nflat,
     X       |-> XFlat(npoints, half)]

\* a 2 x 2 grid over [-1, 1] and a 3 x 3 grid over [-2, 2], index 3 in the core, 1 around
IndexProfiles ==
    << IndexProfileOf(2, 1, <<1, 3, 3, 1>>),
       IndexProfileOf(3, 2, <<1, 1, 1, 1, 3, 1, 1, 1, 1>>) >>

\* the curvature argument: <<>> is None, <<c>> the radius c.  With c = 2 the
\* term 1 + 2*X/c vanishes where X = -1 (first grid) and nowhere on the second
Curvatures == {<<>>, <<2>>}

Boundaries == {"close", "periodic", "open"}

\* the eigenvalues the eigensolver may hand back: with k0 = 2 and n between 1 and 3
\* the band is 4 < lambda < 36, so these are its two ends and two values inside
EigenValues == {4, 9, 16, 36}

-----------------------------------------------------------------------------
(* propagationModeSolver.solve: construction of the operator *)

\* [x]*k
Fill(x, k) == [i \in 1..k |-> x]

\* the pattern without the entry b between the rows
RowPatternUnbroken(a, b, npoints) == Fill(a, npoints * npoints - 1)

\* ([a]*(npoints-1)+[b])*(npoints-1)+[a]*(npoints-1)
RowPattern(a, b, npoints) ==
    Repeat(Fill(a, npoints - 1) \o <<b>>, npoints - 1) \o Fill(a, npoints - 1)

\* -4./dh**2+k0**2*n.flatten()**2
MainDiagonal(ip, k0) ==
    [j \in 1..Len(ip.n) |->
        RAdd(RDiv(Rat(-4, 1), RMul(ip.dh, ip.dh)),
             RMul(RMul(k0, k0), Rat(ip.n[j] * ip.n[j], 1)))]

\* the list diags before the curvature term is applied
BoundaryDiagonals(ip, boundary) ==
    LET np == ip.npoints
        w  == RDiv(Rat(1, 1), RMul(ip.dh, ip.dh))
        z  == Rat(0, 1)
        xparts == <<RowPattern(w, z, np), RowPattern(w, z, np)>>
        yparts == <<Fill(w, np * (np - 1)), Fill(w, np * (np - 1))>>
    IN IF boundary = "periodic"
       THEN xparts \o yparts
            \o <<RowPattern(z, w, np), RowPattern(z, w, np)>>
            \o <<Fill(w, np), Fill(w, np)>>
       ELSE IF boundary = "close"
       THEN xparts \o yparts
       ELSE <<>>

\* curv_term = (1.+2*xi*X.flatten()/curvature) with xi = 1.
CurvTerm(ip, c) ==
    [j \in 1..Len(ip.X) |-> RAdd(Rat(1, 1), RDiv(Rat(2 * 1 * ip.X[j], 1), Rat(c, 1)))]

\* elementwise a / b of two equally long arrays
DivEach(a, b) == [j \in 1..Len(a) |-> RDiv(a[j], b[j])]

\* diags[0..4] divided by the matching slices of curv_term (needs five diagonals)
ApplyCurvature(diags, ip, c) ==
    LET ct == CurvTerm(ip, c)
        np == ip.npoints
        L  == Len(ct)
    IN [k \in 1..Len(diags) |->
          IF k = 1 THEN DivEach(diags[1], ct)
          ELSE IF k = 2 THEN DivEach(diags[2], Tail1(ct, 2))
          ELSE IF k = 3 THEN DivEach(diags[3], SubSeq(ct, 1, L - 1))
          ELSE IF k = 4 THEN DivEach(diags[4], Tail1(ct, np + 1))
          ELSE IF k = 5 THEN DivEach(diags[5], SubSeq(ct, 1, L - np))
          ELSE diags[k]]

\* [0,-1,1,-npoints,npoints]
Offsets(npoints) == <<0, -1, 1, -npoints, npoints>>

\* sparse.diags as it would be if it paired diagonals with offsets the way zip
\* does, leaving the offsets without a diagonal empty
SparseDiagsAcceptsPaired(diags, offsets) ==
    LET m == Len(diags[1]) + Abs(offsets[1])
    IN \A k \in 1..Len(diags) :
         k <= Len(offsets) =>
            (Len(diags[k]) = m - Abs(offsets[k]) \/ Len(diags[k]) = 1)

\* scipy.sparse.diags accepts the lists: as many diagonals as offsets, each of
\* the length its offset leaves in a square matrix sized by the first one
SparseDiagsAccepts(diags, offsets) ==
    /\ Len(diags) = Len(offsets)
    /\ LET m == Len(diags[1]) + Abs(offsets[1])
       IN \A k \in 1..Len(diags) :
            Len(diags[k]) = m - Abs(offsets[k]) \/ Len(diags[k]) = 1

\* the attribute H before the first assignment to it
NoH == [set |-> FALSE]

MakeH(diags, offsets) == [set |-> TRUE, diags |-> diags, offsets |-> offsets]

\* the entry of H at row r, column c (0-based), as sparse.diags places the diagonals
HEntry(h, r, c) ==
    LET ks == {k \in 1..Len(h.offsets) : h.offsets[k] = c - r}
    IN IF ks = {} THEN Rat(0, 1)
       ELSE LET k == SetMin(ks)
                d == h.diags[k]
                i == IF c >= r THEN r ELSE c
            IN IF Len(d) = 1 THEN d[1] ELSE d[i + 1]

HSize(h) == Len(h.diags[1]) + Abs(h.offsets[1])

-----------------------------------------------------------------------------
(* The Modes container *)

\* modeMatrix before getModeMatrix has run
NoMatrix == [set |-> FALSE]

\* Modes.__init__ (the lists u, w, modesList, m, l are never touched and left out);
\* the constructor creates no attribute named curvature
ModesInit ==
    [betas        |-> <<>>,
     number       |-> 0,
     indexProfile |-> 0,
     profiles     |-> <<>>,
     modeMatrix   |-> NoMatrix,
     wl           |-> <<>>]

\* res[1][:,i] divided by its L2 norm: column i (0-based) of the eigenvectors, unit norm
UnitProfile(i) == [col |-> i, unit |-> TRUE]

\* an identity no live object has
FreshId(h) == SetMin((1..(Cardinality(DOMAIN h) + 1)) \ DOMAIN h)

\* the objects still referenced from the solver or the caller
Collect(h, refs) == [i \in (DOMAIN h) \cap refs |-> h[i]]

-----------------------------------------------------------------------------
(* propagationModeSolver.solve: selection of the propagating modes *)

RLess(a, b) == a.n * b.d < b.n * a.d

\* the band closed at beta_max**2
InBandStrictLeft(betasq, beta_min, beta_max) ==
    /\ RLess(RMul(beta_min, beta_min), Rat(betasq, 1))
    /\ ~RLess(RMul(beta_max, beta_max), Rat(betasq, 1))

\* betasq > beta_min**2 and betasq < beta_max**2
InBand(betasq, beta_min, beta_max) ==
    /\ RLess(RMul(beta_min, beta_min), Rat(betasq, 1))
    /\ RLess(Rat(betasq, 1), RMul(beta_max, beta_max))

\* the loop with the count left alone
RECURSIVE SelectModesUncounted(_, _, _, _, _)
SelectModesUncounted(m, eig, i, beta_min, beta_max) ==
    IF i >= Len(eig) THEN m
    ELSE IF InBand(eig[i + 1], beta_min, beta_max)
    THEN SelectModesUncounted(
             [m EXCEPT !.betas = Append(@, Sqrt(eig[i + 1])),
                       !.profiles = Append(@, UnitProfile(i))],
             eig, i + 1, beta_min, beta_max)
    ELSE SelectModesUncounted(m, eig, i + 1, beta_min, beta_max)

\* the loop over enumerate(res[0]): eigenpairs i..len-1 (0-based) appended to m
RECURSIVE SelectModes(_, _, _, _, _)
SelectModes(m, eig, i, beta_min, beta_max) ==
    IF i >= Len(eig) THEN m
    ELSE IF InBand(eig[i + 1], beta_min, beta_max)
    THEN SelectModes(
             [m EXCEPT !.betas = Append(@, Sqrt(eig[i + 1])),
                       !.number = @ + 1,
                       !.profiles = Append(@, UnitProfile(i))],
             eig, i + 1, beta_min, beta_max)
    ELSE SelectModes(m, eig, i + 1, beta_min, beta_max)

\* eigs(H, k, which='LR') refuses k outside 1..N-2 for an N x N sparse matrix
EigsAccepts(h, k) == k >= 1 /\ k < HSize(h) - 1

\* how far solve gets, and with which operator: the exception it ends with ("" for
\* none), and the H it has assigned by then
SolveOperator(w, ipi, boundary, curvature) ==
    IF ipi = 0 \/ w = <<>>
    THEN [exc |-> "AssertionError", built |-> FALSE]
    ELSE LET ip    == IndexProfiles[ipi]
             k0    == K0(w)
             diags == <<MainDiagonal(ip, k0)>> \o BoundaryDiagonals(ip, boundary)
         IN IF curvature # <<>> /\ Len(diags) < 5
            THEN [exc |-> "IndexError", built |-> FALSE]
            ELSE LET scaled == IF curvature = <<>> THEN diags
                               ELSE ApplyCurvature(diags, ip, curvature[1])
                 IN IF ~SparseDiagsAccepts(scaled, Offsets(ip.npoints))
                    THEN [exc |-> "ValueError", built |-> FALSE]
                    ELSE [exc |-> "", built |-> TRUE,
                          h |-> MakeH(scaled, Offsets(ip.npoints))]

\* the Modes object solve fills from the eigenvalues eig
SolvedModes(w, ipi, eig) ==
    LET ip == IndexProfiles[ipi]
        k0 == K0(w)
        beta_min == RMul(k0, Rat(SetMin(Range(ip.n)), 1))
        beta_max == RMul(k0, Rat(SetMax(Range(ip.n)), 1))
    IN SelectModes([ModesInit EXCEPT !.wl = w, !.indexProfile = ipi],
                   eig, 0, beta_min, beta_max)

\* the result stored whatever storeData
StoredAlways(storeData, old, new) == new

\* if storeData: self.modes = modes
Stored(storeData, old, new) == IF storeData THEN new ELSE old

-----------------------------------------------------------------------------
(* Modes: derived quantities *)

\* getModeMatrix(npola) with shift = angle = None: column pol*number+ind holds
\* profile ind in the row block pol, zeros elsewhere
ModeMatrix(m, npola) ==
    [set   |-> TRUE,
     npola |-> npola,
     N     |-> Len(IndexProfiles[m.indexProfile].n),
     cols  |-> [c \in 1..(npola * m.number) |->
                  [block   |-> (c - 1) \div m.number,
                   profile |-> m.profiles[((c - 1) % m.number) + 1]]]]

\* np.diag(v) of a list v
Diag(v) == [i \in 1..Len(v) |-> [j \in 1..Len(v) |-> IF i = j THEN v[i] ELSE 0]]

\* the betas taken once, whatever npola
BetasVecOnce(betas, npola) == betas

\* betas_vec = self.betas*npola
BetasVec(betas, npola) == Repeat(betas, npola)

\* the inner loop of getNearDegenerate, when dict.keys() is a list (a copy of the
\* keys taken before the loop pops any): the groups of the indices in remaining
RECURSIVE NearDegenerateGroups(_, _, _)
NearDegenerateGroups(betas, remaining, tol) ==
    IF remaining = {} THEN <<>>
    ELSE LET next_ind == SetMin(remaining)
             beta0    == betas[next_ind + 1]
             rest     == remaining \ {next_ind}
             close    == {ind \in rest : Abs(betas[ind + 1] - beta0) <= tol}
             current_group == <<next_ind>> \o Ascending(close)
         IN <<current_group>> \o NearDegenerateGroups(betas, rest \ close, tol)

\* getNearDegenerate(tol).  keysIsList: dict.keys() returns a list (Python 2);
\* otherwise it returns a view (Python 3), np.min hands the view back and
\* dict.pop cannot hash it
NearDegenerate(m, tol, keysIsList) ==
    IF Len(m.betas) = 0
    THEN [kind |-> "return", exc |-> "", groups |-> <<>>]
    ELSE IF keysIsList
    THEN [kind |-> "return", exc |-> "",
          groups |-> NearDegenerateGroups(m.betas, 0..(Len(m.betas) - 1), tol)]
    ELSE [kind |-> "raise", exc |-> "TypeError", groups |-> <<>>]

\* the value None of a call that returns nothing
NoneValue == [kind |-> "None"]

\* getEvolutionOperator(npola, curvature): its outcome and the object afterwards
EvolutionOperator(m, npola, curvature) ==
    LET B == Diag(BetasVec(m.betas, npola))
    IN IF curvature = <<>>
       THEN [kind |-> "return", exc |-> "", logged |-> FALSE,
             val |-> [kind |-> "matrix", rows |-> B], obj |-> m]
       ELSE IF m.wl = <<>> \/ m.indexProfile = 0
       THEN [kind |-> "raise", exc |-> "AssertionError", logged |-> FALSE,
             val |-> NoneValue, obj |-> m]
       \* try: assert(self.curvature == None)  except: logger.error(...); return
       ELSE IF "curvature" \notin DOMAIN m \/ m.curvature # <<>>
       THEN [kind |-> "return", exc |-> "", logged |-> TRUE,
             val |-> NoneValue, obj |-> m]
       ELSE IF Len(m.profiles) = 0
       THEN [kind |-> "raise", exc |-> "AssertionError", logged |-> FALSE,
             val |-> NoneValue, obj |-> m]
       ELSE LET M  == ModeMatrix(m, 1)
                m2 == [m EXCEPT !.modeMatrix = M]
            IN IF npola # 1 /\ m.number > 1
               THEN [kind |-> "raise", exc |-> "ValueError", logged |-> FALSE,
                     val |-> NoneValue, obj |-> m2]
               ELSE [kind |-> "return", exc |-> "", logged |-> FALSE,
                     val |-> [kind |-> "curved", rows |-> B, M |-> M,
                              k0 |-> K0(m.wl), curvature |-> curvature[1],
                              nmin |-> SetMin(Range(IndexProfiles[m.indexProfile].n))],
                     obj |-> m2]

\* getPropagationMatrix(distance, npola, curvature): T receives the evolution
\* operator, and the return statement then reads the name B, bound nowhere
PropagationMatrix(m, distance, npola, curvature) ==
    LET T == EvolutionOperator(m, npola, curvature)
    IN IF T.kind = "raise"
       THEN [kind |-> "raise", exc |-> T.exc, val |-> NoneValue, obj |-> T.obj]
       ELSE [kind |-> "raise", exc |-> "NameError", val |-> NoneValue, obj |-> T.obj]

-----------------------------------------------------------------------------
(* The stateless estimators *)

\* V**2 for V = k0*a*NA with k0 = 2.*np.pi/wl, NA = na/NADen
VSquared(w, a, na) ==
    LET V == RMul(RMul(K0(w), Rat(a, 1)), Rat(na, NADen))
    IN RMul(V, V)

\* np.ceil(V**2/4.).astype(int)
estimateNumModesGRIN(w, a, na) == Ceil(RDiv(VSquared(w, a, na), Rat(4, 1)))

\* V**2/2. rounded down
estimateNumModesSIFloor(w, a, na) ==
    LET x == RDiv(VSquared(w, a, na), Rat(2, 1)) IN x.n \div x.d

\* np.ceil(V**2/2.).astype(int)
estimateNumModesSI(w, a, na) == Ceil(RDiv(VSquared(w, a, na), Rat(2, 1)))

-----------------------------------------------------------------------------
(* Initial state: propagationModeSolver.__init__ *)

\* no call is pending: the caller has taken note of the last outcome
NoCall == [op |-> "none", kind |-> "return", exc |-> ""]

EstIdle == [op |-> "idle"]

Init ==
    /\ wl = <<>>
    /\ indexProfile = 0
    /\ H = NoH
    /\ modes = 0
    /\ heap = [i \in {} |-> ModesInit]
    /\ ret = 0
    /\ solvedCurv = [i \in {} |-> "ctor"]
    /\ out = NoCall
    /\ est = EstIdle

-----------------------------------------------------------------------------
(* Actions of the solver *)

setWL(w) ==
    /\ wl' = w
    /\ out' = [op |-> "setWL", kind |-> "return", exc |-> ""]
    /\ UNCHANGED <<indexProfile, H, modes, heap, ret, solvedCurv, est>>

setIndexProfile(ipi) ==
    /\ indexProfile' = ipi
    /\ out' = [op |-> "setIndexProfile", kind |-> "return", exc |-> ""]
    /\ UNCHANGED <<wl, H, modes, heap, ret, solvedCurv, est>>

\* SolveOperator for every argument, evaluated once
OperatorTable ==
    [w \in Wavelengths \cup {<<>>}, ipi \in 0..Len(IndexProfiles),
     boundary \in Boundaries, curvature \in Curvatures |->
        SolveOperator(w, ipi, boundary, curvature)]

\* what the eigensolver can answer to eigs(H, k=nmodesMax, which='LR'): it is not
\* reached, it refuses k, it does not converge, or it hands back k eigenvalues
EigsOutcomes(built, nmodesMax, pool) ==
    IF ~built.built THEN {[status |-> "not run"]}
    ELSE IF ~EigsAccepts(built.h, nmodesMax) THEN {[status |-> "TypeError"]}
    ELSE {[status |-> "ArpackNoConvergence"]}
         \cup {[status |-> "ok", vals |-> eig] : eig \in [1..nmodesMax -> pool]}

SolveCall(kind, exc, nmodesMax, boundary, storeData, curvature, eig, obj) ==
    [op |-> "solve", kind |-> kind, exc |-> exc, nmodesMax |-> nmodesMax,
     boundary |-> boundary, storeData |-> storeData, curvature |-> curvature,
     eig |-> eig, obj |-> obj]

\* solve(nmodesMax, boundary, storeData, curvature); res is the eigensolver's answer
solve(nmodesMax, boundary, storeData, curvature, res) ==
    LET built == OperatorTable[wl, indexProfile, boundary, curvature]
    IN IF ~built.built
       THEN /\ out' = SolveCall("raise", built.exc, nmodesMax, boundary, storeData,
                                curvature, <<>>, 0)
            /\ UNCHANGED <<wl, indexProfile, H, modes, heap, ret, solvedCurv, est>>
       ELSE IF res.status # "ok"
       THEN /\ H' = built.h
            /\ out' = SolveCall("raise", res.status, nmodesMax, boundary, storeData,
                                curvature, <<>>, 0)
            /\ UNCHANGED <<wl, indexProfile, modes, heap, ret, solvedCurv, est>>
       ELSE LET id  == FreshId(heap)
                new == SolvedModes(wl, indexProfile, res.vals)
                cached == Stored(storeData, modes, id)
                refs == {cached, id}
            IN /\ H' = built.h
               /\ modes' = cached
               /\ ret' = id
               /\ heap' = Collect(heap @@ (id :> new), refs)
               /\ solvedCurv' = Collect(solvedCurv @@
                                   (id :> IF curvature = <<>> THEN "straight" ELSE "curved"),
                                   refs)
               /\ out' = SolveCall("return", "", nmodesMax, boundary, storeData,
                                   curvature, res.vals, id)
               /\ UNCHANGED <<wl, indexProfile, est>>

\* the caller takes note of the outcome and lets go of the Modes object it holds
release ==
    /\ out # NoCall
    /\ ret' = 0
    /\ heap' = Collect(heap, {modes})
    /\ solvedCurv' = Collect(solvedCurv, {modes})
    /\ out' = NoCall
    /\ UNCHANGED <<wl, indexProfile, H, modes, est>>

\* the caller takes note of the outcome and keeps the Modes object it holds
consume ==
    /\ out # NoCall
    /\ out' = NoCall
    /\ UNCHANGED <<wl, indexProfile, H, modes, heap, ret, solvedCurv, est>>

\* the caller constructs a Modes object itself
newModes ==
    LET id == FreshId(heap)
        refs == {modes, id}
    IN /\ ret' = id
       /\ heap' = Collect(heap @@ (id :> ModesInit), refs)
       /\ solvedCurv' = Collect(solvedCurv @@ (id :> "ctor"), refs)
       /\ out' = [op |-> "Modes", kind |-> "return", exc |-> "", obj |-> id]
       /\ UNCHANGED <<wl, indexProfile, H, modes, est>>

\* the Modes objects a caller can reach: the one it holds, the one the solver caches
Reachable == {ret, modes} \ {0}

-----------------------------------------------------------------------------
(* Actions of a Modes object t *)

getModeMatrix(t, npola) ==
    /\ t \in Reachable
    /\ IF Len(heap[t].profiles) = 0
       THEN /\ out' = [op |-> "getModeMatrix", kind |-> "raise", exc |-> "AssertionError",
                       target |-> t, npola |-> npola]
            /\ UNCHANGED heap
       ELSE /\ heap' = [heap EXCEPT ![t].modeMatrix = ModeMatrix(heap[t], npola)]
            /\ out' = [op |-> "getModeMatrix", kind |-> "return", exc |-> "",
                       target |-> t, npola |-> npola,
                       val |-> ModeMatrix(heap[t], npola)]
    /\ UNCHANGED <<wl, indexProfile, H, modes, ret, solvedCurv, est>>

getNearDegenerate(t, tol, keysIsList) ==
    /\ t \in Reachable
    /\ LET r == NearDegenerate(heap[t], tol, keysIsList)
       IN out' = [op |-> "getNearDegenerate", kind |-> r.kind, exc |-> r.exc,
                  target |-> t, tol |-> tol, keysIsList |-> keysIsList,
                  groups |-> r.groups]
    /\ UNCHANGED <<wl, indexProfile, H, modes, heap, ret, solvedCurv, est>>

getEvolutionOperator(t, npola, curvature) ==
    /\ t \in Reachable
    /\ LET r == EvolutionOperator(heap[t], npola, curvature)
       IN /\ heap' = [heap EXCEPT ![t] = r.obj]
          /\ out' = [op |-> "getEvolutionOperator", kind |-> r.kind, exc |-> r.exc,
                     target |-> t, npola |-> npola, curvature |-> curvature,
                     logged |-> r.logged, val |-> r.val]
    /\ UNCHANGED <<wl, indexProfile, H, modes, ret, solvedCurv, est>>

getPropagationMatrix(t, distance, npola, curvature) ==
    /\ t \in Reachable
    /\ LET r == PropagationMatrix(heap[t], distance, npola, curvature)
       IN /\ heap' = [heap EXCEPT ![t] = r.obj]
          /\ out' = [op |-> "getPropagationMatrix", kind |-> r.kind, exc |-> r.exc,
                     target |-> t, distance |-> distance, npola |-> npola,
                     curvature |-> curvature, val |-> r.val]
    /\ UNCHANGED <<wl, indexProfile, H, modes, ret, solvedCurv, est>>

-----------------------------------------------------------------------------
(* The solver: configuration and solve calls in any order.  Calls do not       *)
(* overlap (the program is single-threaded), and the caller lets go of a       *)
(* returned Modes object before it calls the solver again.                     *)

Next ==
    \/ \E w \in Wavelengths : out = NoCall /\ setWL(w)
    \/ \E ipi \in 1..Len(IndexProfiles) : out = NoCall /\ setIndexProfile(ipi)
    \/ \E nmodesMax \in 1..MaxModes, boundary \in Boundaries, storeData \in BOOLEAN,
          curvature \in Curvatures :
          \E res \in EigsOutcomes(OperatorTable[wl, indexProfile, boundary, curvature],
                                  nmodesMax, EigenValues) :
             out = NoCall /\ solve(nmodesMax, boundary, storeData, curvature, res)
    \/ out = NoCall /\ newModes
    \/ release

Spec == Init /\ [][Next]_vars

-----------------------------------------------------------------------------
(* The Modes objects: a configured solver, solve calls that store their result, *)
(* Modes objects built by the caller, and the methods of either.               *)

Npolas == {1, 2}

Distances == {0, 1}

ModesEigenValues == {4, 9, 16}

InitModes ==
    /\ wl \in Wavelengths
    /\ indexProfile \in 1..Len(IndexProfiles)
    /\ H = NoH
    /\ modes = 0
    /\ heap = [i \in {} |-> ModesInit]
    /\ ret = 0
    /\ solvedCurv = [i \in {} |-> "ctor"]
    /\ out = NoCall
    /\ est = EstIdle

NextModes ==
    \/ \E nmodesMax \in 1..MaxModes, curvature \in Curvatures :
          \E res \in EigsOutcomes(OperatorTable[wl, indexProfile, "close", curvature],
                                  nmodesMax, ModesEigenValues) :
             out = NoCall /\ solve(nmodesMax, "close", TRUE, curvature, res)
    \/ out = NoCall /\ newModes
    \/ \E t \in Reachable, npola \in Npolas : out = NoCall /\ getModeMatrix(t, npola)
    \/ \E t \in Reachable, tol \in 0..MaxTol, keysIsList \in BOOLEAN :
          out = NoCall /\ getNearDegenerate(t, tol, keysIsList)
    \/ \E t \in Reachable, npola \in Npolas, curvature \in Curvatures :
          out = NoCall /\ getEvolutionOperator(t, npola, curvature)
    \/ \E t \in Reachable, distance \in Distances, npola \in Npolas,
          curvature \in Curvatures :
          out = NoCall /\ getPropagationMatrix(t, distance, npola, curvature)
    \/ consume

SpecModes == InitModes /\ [][NextModes]_vars

-----------------------------------------------------------------------------
(* The estimators: the inputs are drawn, then the two estimators applied *)

\* wl = 2*pi*p/q for <<p, q>>: k0 is 1, 2, 1/2, 2/3
EstWavelengths == {<<1, 1>>, <<1, 2>>, <<2, 1>>, <<3, 2>>}

InitEst ==
    /\ wl = <<>>
    /\ indexProfile = 0
    /\ H = NoH
    /\ modes = 0
    /\ heap = [i \in {} |-> ModesInit]
    /\ ret = 0
    /\ solvedCurv = [i \in {} |-> "ctor"]
    /\ out = NoCall
    /\ est \in [op : {"input"}, wl : EstWavelengths, a : 0..MaxRadius, na : 0..MaxNA]

estimate ==
    /\ est.op = "input"
    /\ est' = [op |-> "estimated", wl |-> est.wl, a |-> est.a, na |-> est.na,
               SI   |-> estimateNumModesSI(est.wl, est.a, est.na),
               GRIN |-> estimateNumModesGRIN(est.wl, est.a, est.na)]
    /\ UNCHANGED solverVars

NextEst == estimate

SpecEst == InitEst /\ [][NextEst]_vars

-----------------------------------------------------------------------------
(* Properties of solve, checked under Spec *)

\* solve has just returned a Modes object
SolveReturned == out.op = "solve" /\ out.kind = "return"

\* solve has just ended after assigning self.H
SolveAssembled ==
    /\ out.op = "solve"
    /\ out.kind = "return" \/ out.exc \in {"TypeError", "ArpackNoConvergence"}

\* lambda lies strictly between (k0*min(n))^2 and (k0*max(n))^2 for the
\* wavelength and index profile of the Modes object m
StrictlyGuided(lambda, m) ==
    LET k0 == K0(m.wl)
        n  == Range(IndexProfiles[m.indexProfile].n)
        lo == k0.n * SetMin(n)
        hi == k0.n * SetMax(n)
    IN /\ lo * lo < lambda * k0.d * k0.d
       /\ lambda * k0.d * k0.d < hi * hi

\* C1: the Modes object solve returns holds exactly the eigenpairs whose
\* eigenvalue lies strictly inside the band beta_min^2 < lambda < beta_max^2,
\* in the eigensolver's order, each with beta = sqrt(lambda).
C1_GuidedBandOnly ==
    SolveReturned =>
        LET m    == heap[out.obj]
            acc  == {i \in 1..Len(out.eig) : StrictlyGuided(out.eig[i], m)}
            cols == [j \in 1..Len(m.profiles) |-> m.profiles[j].col + 1]
        IN /\ Len(m.betas) = Cardinality(acc)
           /\ Len(m.profiles) = Cardinality(acc)
           /\ Range(cols) = acc
           /\ \A j, k \in 1..Len(cols) : j < k => cols[j] < cols[k]
           /\ \A j \in 1..Len(cols) :
                /\ m.betas[j] * m.betas[j] = out.eig[cols[j]]
                /\ StrictlyGuided(out.eig[cols[j]], m)

\* an eigenvalue equal to beta_max^2 was handed back first and dropped, the
\* guided one after it was kept
C1_Witness ==
    /\ SolveReturned
    /\ Len(out.eig) = 2
    /\ out.eig[1] = 36 /\ out.eig[2] = 9
    /\ heap[out.obj].betas = <<3>>
    /\ heap[out.obj].profiles = <<UnitProfile(1)>>

\* C7: a solve with storeData makes the returned object the cached one; a solve
\* without it leaves the cached object and its content as they were and returns
\* an object that is new and is not the cached one.
C7_LastStoredSolveWins ==
    [][ (out.op = "none" /\ out'.op = "solve" /\ out'.kind = "return") =>
          /\ ret' = out'.obj
          /\ ret' \notin DOMAIN heap
          /\ IF out'.storeData
             THEN modes' = ret'
             ELSE /\ modes' = modes
                  /\ modes' # ret'
                  /\ modes # 0 => heap'[modes] = heap[modes] ]_vars

\* a second solve, without storeData, returned modes that differ from the cached ones
C7_Witness ==
    /\ SolveReturned
    /\ ~out.storeData
    /\ modes # 0 /\ modes # ret
    /\ heap[modes].betas = <<4>> /\ heap[ret].betas = <<3>>

\* the errors of the assembly of H (the curvature term and sparse.diags)
AssemblyErrors == {"IndexError", "ValueError"}

\* C8 as claimed: with wavelength and index profile set, solve with
\* boundary='periodic' assembles H from its nine diagonals without an error.
C8_PeriodicAssembles ==
    (out.op = "solve" /\ out.boundary = "periodic" /\ wl # <<>> /\ indexProfile # 0)
        => /\ out.exc \notin AssemblyErrors
           /\ H = MakeH(OperatorTable[wl, indexProfile, "periodic", out.curvature].h.diags,
                        Offsets(IndexProfiles[indexProfile].npoints))

\* C9: every Modes object has len(betas) = len(profiles) = number; the one solve
\* returns has number <= nmodesMax; the one the constructor returns is empty.
C9_ParallelLists ==
    /\ \A id \in DOMAIN heap :
          /\ Len(heap[id].betas) = heap[id].number
          /\ Len(heap[id].profiles) = heap[id].number
    /\ SolveReturned => heap[out.obj].number <= out.nmodesMax
    /\ out.op = "Modes" =>
          /\ heap[out.obj].number = 0
          /\ heap[out.obj].betas = <<>>
          /\ heap[out.obj].profiles = <<>>

\* every eigenpair asked for was guided: number reaches nmodesMax
C9_Witness ==
    /\ SolveReturned
    /\ out.nmodesMax = 2
    /\ out.boundary = "close"
    /\ heap[out.obj].number = 2
    /\ Len(heap[out.obj].betas) = 2

\* the zero / nonzero pattern of H: entries off the five diagonals are zero
OnFiveDiagonals(h, npoints) ==
    \A r, c \in 0..(HSize(h) - 1) :
        ~RIsZero(HEntry(h, r, c)) => (c - r) \in {0, 1, -1, npoints, -npoints}

\* the couplings between the last point of a row and the first of the next are zero
RowEndsUncoupled(h, npoints) ==
    \A k \in 1..(npoints - 1) :
        /\ RIsZero(HEntry(h, k * npoints - 1, k * npoints))
        /\ RIsZero(HEntry(h, k * npoints, k * npoints - 1))

\* every zero entry of the operator h0 is a zero entry of h
ZerosKept(h0, h) ==
    \A r, c \in 0..(HSize(h) - 1) :
        RIsZero(HEntry(h0, r, c)) => RIsZero(HEntry(h, r, c))

\* 1 + 2*X/curvature vanishes at no grid point
CurvTermNonzero(ip, curvature) ==
    curvature = <<>> \/ \A j \in 1..Len(ip.X) : ~RIsZero(CurvTerm(ip, curvature[1])[j])

\* C10 as claimed: for boundary='close', with or without curvature, H is zero
\* off the diagonals 0, +-1, +-npoints, the row-end entries of the +-1 diagonals
\* are zero, and no zero entry of the straight operator is nonzero in H.
C10_CloseBoundaryPattern ==
    (SolveAssembled /\ out.boundary = "close") =>
        LET np == IndexProfiles[indexProfile].npoints
            straight == OperatorTable[wl, indexProfile, "close", <<>>].h
        IN /\ Len(H.diags) = 5
           /\ OnFiveDiagonals(H, np)
           /\ RowEndsUncoupled(H, np)
           /\ ZerosKept(straight, H)

\* C10 as amended: the same, the zero entries being claimed only when
\* 1 + 2*X/curvature vanishes at no grid point.
C10_CloseBoundaryPatternRegular ==
    (SolveAssembled /\ out.boundary = "close") =>
        LET ip == IndexProfiles[indexProfile]
            straight == OperatorTable[wl, indexProfile, "close", <<>>].h
        IN /\ Len(H.diags) = 5
           /\ OnFiveDiagonals(H, ip.npoints)
           /\ CurvTermNonzero(ip, out.curvature) =>
                 /\ RowEndsUncoupled(H, ip.npoints)
                 /\ ZerosKept(straight, H)

\* a curved operator on the 3 x 3 grid, whose entries differ from the straight ones
C10_Witness ==
    /\ SolveAssembled
    /\ out.boundary = "close"
    /\ out.curvature = <<2>>
    /\ IndexProfiles[indexProfile].npoints = 3
    /\ H # OperatorTable[wl, indexProfile, "close", <<>>].h
    /\ RowEndsUncoupled(H, 3)

\* solve is called with a boundary that is neither 'close' nor 'periodic', no
\* curvature, and the wavelength and the index profile set
UnknownBoundaryCall(o) ==
    /\ o.op = "solve"
    /\ o.boundary \notin {"close", "periodic"}
    /\ o.curvature = <<>>
    /\ wl # <<>> /\ indexProfile # 0

\* C11 as claimed: solve with a boundary that is neither 'close' nor 'periodic'
\* (wavelength and index profile set, curvature None) raises no error of the
\* assembly and leaves in H the main diagonal -4/dh^2 + k0^2*n^2 alone.
C11_UnknownBoundaryDiagonalOnly ==
    UnknownBoundaryCall(out) =>
        /\ out.exc \notin AssemblyErrors
        /\ H = MakeH(<<MainDiagonal(IndexProfiles[indexProfile], K0(wl))>>, <<0>>)

\* C11 amended: such a call ends in the ValueError of sparse.diags (one diagonal
\* for five offsets); it assigns no H, stores no Modes object and returns none.
C11_UnknownBoundaryRaises ==
    [][UnknownBoundaryCall(out') /\ out = NoCall =>
          /\ out'.kind = "raise"
          /\ out'.exc = "ValueError"
          /\ out'.obj = 0
          /\ H' = H
          /\ modes' = modes
          /\ heap' = heap]_vars

\* the call fails after an earlier solve assembled an operator, which H keeps
C11_Witness ==
    /\ UnknownBoundaryCall(out)
    /\ out.boundary = "open"
    /\ out.exc = "ValueError"
    /\ H.set
    /\ Len(H.diags) = 5

-----------------------------------------------------------------------------
(* Properties of the Modes methods, checked under SpecModes *)

\* the n x n identity matrix
Identity(n) == [i \in 1..n |-> [j \in 1..n |-> IF i = j THEN 1 ELSE 0]]

\* C2 as claimed: getPropagationMatrix(0, npola, None) on a Modes object made by
\* solve returns the identity matrix of dimension number*npola.
C2_ZeroDistanceIsIdentity ==
    (/\ out.op = "getPropagationMatrix"
     /\ out.distance = 0
     /\ out.curvature = <<>>
     /\ solvedCurv[out.target] # "ctor")
        => /\ out.kind = "return"
           /\ out.val.kind = "matrix"
           /\ out.val.rows = Identity(heap[out.target].number * out.npola)

\* C3 as claimed: getEvolutionOperator with a curvature, on modes solve found
\* for a straight fibre, returns diag(betas) - min(n)*k0/curvature * A and logs
\* nothing; it logs an error and returns nothing only on modes solved with the
\* curvature applied.
C3_CurvatureOnStraightModes ==
    (/\ out.op = "getEvolutionOperator"
     /\ out.curvature # <<>>
     /\ out.npola = 1
     /\ heap[out.target].number > 0)
        => /\ solvedCurv[out.target] = "straight" =>
                 /\ out.kind = "return"
                 /\ ~out.logged
                 /\ out.val.kind = "curved"
           /\ (out.logged /\ out.val = NoneValue) => solvedCurv[out.target] = "curved"

\* the groups, flattened
RECURSIVE Flatten(_)
Flatten(groups) == IF groups = <<>> THEN <<>> ELSE Head(groups) \o Flatten(Tail(groups))

\* the indices of the groups before group g
Earlier(groups, g) == UNION {Range(groups[h]) : h \in 1..(g - 1)}

\* groups is the clustering getNearDegenerate is to return for betas and tol
IsGreedyPartition(groups, betas, tol) ==
    LET all  == 0..(Len(betas) - 1)
        flat == Flatten(groups)
    IN /\ Range(flat) = all
       /\ Len(flat) = Len(betas)
       /\ \A g \in 1..Len(groups) :
            /\ Len(groups[g]) > 0
            /\ groups[g][1] = SetMin(all \ Earlier(groups, g))
            /\ \A i \in Range(groups[g]) :
                 Abs(betas[i + 1] - betas[groups[g][1] + 1]) <= tol
            /\ \A i \in all \ Earlier(groups, g) :
                 Abs(betas[i + 1] - betas[groups[g][1] + 1]) <= tol
                    => i \in Range(groups[g])

\* C4 as claimed: getNearDegenerate(tol) returns groups that partition the mode
\* indices, each led by the lowest index left and holding every index left whose
\* beta is within tol of the leader's.
C4_GroupsPartitionIndices ==
    out.op = "getNearDegenerate" =>
        /\ out.kind = "return"
        /\ IsGreedyPartition(out.groups, heap[out.target].betas, out.tol)

\* the same, for the runs in which dict.keys() is a list
C4_GroupsPartitionWhenKeysIsList ==
    (out.op = "getNearDegenerate" /\ out.keysIsList) =>
        /\ out.kind = "return"
        /\ IsGreedyPartition(out.groups, heap[out.target].betas, out.tol)

\* C6: getEvolutionOperator(npola, None) returns the square matrix of dimension
\* number*npola with the betas, repeated npola times in order, on the diagonal
\* and 0 elsewhere, and changes no Modes object.
C6_StraightOperatorIsDiagonal ==
    [][ (/\ out.op = "none"
         /\ out'.op = "getEvolutionOperator"
         /\ out'.curvature = <<>>)
          => LET m == heap[out'.target]
                 n == m.number * out'.npola
                 B == out'.val.rows
             IN /\ out'.kind = "return"
                /\ out'.val.kind = "matrix"
                /\ Len(B) = n
                /\ \A i \in 1..n :
                     /\ Len(B[i]) = n
                     /\ \A j \in 1..n :
                          B[i][j] = IF i = j THEN m.betas[((i - 1) % m.number) + 1] ELSE 0
                /\ out'.npola = 1 => B = Diag(m.betas)
                /\ heap' = heap ]_vars

\* two polarizations, two different betas, and a mode matrix already cached
C6_Witness ==
    /\ out.op = "getEvolutionOperator"
    /\ out.curvature = <<>>
    /\ out.npola = 2
    /\ heap[out.target].betas = <<4, 3>>
    /\ heap[out.target].modeMatrix.set
    /\ out.val.rows = <<<<4, 0, 0, 0>>, <<0, 3, 0, 0>>, <<0, 0, 4, 0>>, <<0, 0, 0, 3>>>>

-----------------------------------------------------------------------------
(* Properties of the estimators, checked under SpecEst *)

\* C5 as claimed: estimateNumModesSI is exactly twice estimateNumModesGRIN.
C5_SIIsTwiceGRIN ==
    est.op = "estimated" => est.SI = 2 * est.GRIN

\* C5 as amended: SI = ceil(V^2/2) and GRIN = ceil(V^2/4) for V = k0*a*NA, and
\* SI is 2*GRIN or 2*GRIN - 1, the latter exactly when the fractional part of
\* V^2/4 is above 0 and at most 1/2.
C5_SIIsTwiceGRINOrOneLess ==
    est.op = "estimated" =>
        LET num == (est.wl[2] * est.a * est.na) * (est.wl[2] * est.a * est.na)
            den == (est.wl[1] * NADen) * (est.wl[1] * NADen)
            over == num - 4 * den * (est.GRIN - 1)
        IN /\ 2 * den * (est.SI - 1) < num /\ num <= 2 * den * est.SI
           /\ 4 * den * (est.GRIN - 1) < num /\ num <= 4 * den * est.GRIN
           /\ est.SI \in {2 * est.GRIN, 2 * est.GRIN - 1}
           /\ est.SI = 2 * est.GRIN - 1 <=> (0 < over /\ over <= 2 * den)

\* V = 1: V^2/2 and V^2/4 both round up to 1
C5_Witness ==
    /\ est.op = "estimated"
    /\ est.wl = <<1, 1>> /\ est.a = 1 /\ est.na = NADen
    /\ est.SI = 1 /\ est.GRIN = 1

====
